---- MODULE Spec2Model ----
(***************************************************************************)
(* dnstwister tools: the cached domain-resolution cascade                  *)
(* (dnstwister/tools/__init__.py: resolve, google_resolve, is_valid_ip)    *)
(* and the sliding-window noise record (dnstwister/tools/noisy_domains.py: *)
(* initialise_record, update).                                             *)
(*                                                                         *)
(* Representation.                                                         *)
(*   - A string is a sequence of one-character strings.                    *)
(*   - A dotted address string "a.b.c.d" is the sequence of its decimal    *)
(*     parts <<a, b, c, d>>; a non-numeric part is -1.                     *)
(*   - Python's (value, is_error) pair is the record [ip, is_error];       *)
(*     the value False is NoAddr.                                          *)
(*   - The cache clock counts seconds.                                     *)
(***************************************************************************)
EXTENDS Integers, Sequences, FiniteSets, TLC

VARIABLES
    cache,      \* the memoize store: key -> [value, expires]
    clock,      \* time.time() of the cache, in seconds
    ticks,      \* how many times the clock has advanced
    pc,         \* per caller: where its call of resolve stands
    arg,        \* per caller: the domain argument of the call
    result,     \* per caller: what the body of resolve returned
    ret,        \* per caller: what the last finished call returned
    calls,      \* per caller: the backends invoked by the current or last call
    event,      \* the step taken last
    written,    \* per key: when its entry was written last (-1: never), and with what
    stats,      \* the noise record under update
    noiseEvent, \* the noise step taken last, with its now
    increments, \* how many times deltas was incremented
    updates     \* how many times update was called

resolveVars == <<cache, clock, ticks, pc, arg, result, ret, calls, event, written>>
noiseVars == <<stats, noiseEvent, increments, updates>>
vars == <<cache, clock, ticks, pc, arg, result, ret, calls, event, written, stats, noiseEvent, increments, updates>>

(***************************************************************************)
(* Bounds                                                                  *)
(***************************************************************************)
MaxTicks == 2

Callers == {1, 2}

(***************************************************************************)
(* Strings and domains                                                     *)
(***************************************************************************)
LowerLetters == {"a", "c", "o"}
UpperLetters == {"A", "C", "O"}

\* string.lower on one character
LowerChar(ch) ==
    CASE ch = "A" -> "a"
      [] ch = "C" -> "c"
      [] ch = "O" -> "o"
      [] OTHER -> ch

Lower(s) == [i \in 1..Len(s) |-> LowerChar(s[i])]

\* "a.co", "A.co", "a!co"
Domains == { <<"a", ".", "c", "o">>, <<"A", ".", "c", "o">>, <<"a", "!", "c", "o">> }

\* the positions of the dots of s
Dots(s) == {i \in 1..Len(s) : s[i] = "."}

\* dnstwist.validate_domain: a match object for a syntactically plausible DNS
\* name (dot-separated non-empty labels of letters, the last of two letters or
\* more), None otherwise.  TRUE stands for the match object, FALSE for None.
validate_domain(s) ==
    /\ Len(s) > 0
    /\ \A i \in 1..Len(s) : s[i] \in LowerLetters \cup UpperLetters \cup {"."}
    /\ Dots(s) # {}
    /\ s[1] # "." /\ s[Len(s)] # "."
    /\ \A i \in Dots(s) : (i + 1) \notin Dots(s)
    /\ \A i \in Dots(s) : (\A j \in Dots(s) : j <= i) => Len(s) - i >= 2

(***************************************************************************)
(* Addresses and outcomes                                                  *)
(***************************************************************************)
NoAddr == <<>>
Loopback == <<127, 0, 0, 1>>

Resolved(ip) == [ip |-> ip, is_error |-> FALSE]
NotResolved == [ip |-> NoAddr, is_error |-> FALSE]
ResolutionError == [ip |-> NoAddr, is_error |-> TRUE]

\* ordering of two A rdatas: by their octets, left to right
RECURSIVE LexLess(_, _)
LexLess(a, b) ==
    IF a = <<>> THEN b # <<>>
    ELSE IF b = <<>> THEN FALSE
    ELSE IF Head(a) # Head(b) THEN Head(a) < Head(b)
    ELSE LexLess(Tail(a), Tail(b))

\* sorted(answer)[0].address, for a non-empty answer
SortedFirst(answer) ==
    LET S == {answer[i] : i \in 1..Len(answer)}
    IN  CHOOSE a \in S : \A b \in S : a = b \/ LexLess(a, b)

(***************************************************************************)
(* What the three backends can answer                                      *)
(***************************************************************************)
Addr1 == <<10, 0, 0, 1>>
Addr2 == <<10, 0, 0, 2>>

\* RESOLVER.query(domain, 'A'): raises (timeout, NXDOMAIN, ...) or answers
\* with a list of A rdatas
QueryAnswers ==
    { [raises |-> TRUE, answer |-> <<>>],
      [raises |-> FALSE, answer |-> <<Addr1>>],
      [raises |-> FALSE, answer |-> <<Addr2, Addr1>>],
      [raises |-> FALSE, answer |-> <<Loopback>>] }

\* socket.gethostbyname(domain): raises or returns one address string
HostAnswers ==
    { [raises |-> TRUE, addr |-> NoAddr],
      [raises |-> FALSE, addr |-> Addr2],
      [raises |-> FALSE, addr |-> Loopback] }

ARecord(data) == [type |-> 1, data |-> data]
CName == [type |-> 5, data |-> <<-1>>]

\* requests.get(...).json(): raises (network failure, not JSON) or is the
\* decoded object {Status, Answer?}
GoogleResponses ==
    { [raises |-> TRUE, Status |-> 0, hasAnswer |-> FALSE, Answer |-> <<>>],
      [raises |-> FALSE, Status |-> 0, hasAnswer |-> TRUE, Answer |-> <<ARecord(Addr1)>>],
      [raises |-> FALSE, Status |-> 0, hasAnswer |-> TRUE, Answer |-> <<CName, ARecord(Addr1)>>],
      [raises |-> FALSE, Status |-> 0, hasAnswer |-> TRUE, Answer |-> <<>>],
      [raises |-> FALSE, Status |-> 0, hasAnswer |-> FALSE, Answer |-> <<>>],
      [raises |-> FALSE, Status |-> 3, hasAnswer |-> FALSE, Answer |-> <<>>],
      [raises |-> FALSE, Status |-> 2, hasAnswer |-> TRUE, Answer |-> <<ARecord(Addr1)>>],
      [raises |-> FALSE, Status |-> 0, hasAnswer |-> TRUE, Answer |-> <<ARecord(<<300, 0, 0, 1>>)>>],
      [raises |-> FALSE, Status |-> 0, hasAnswer |-> TRUE, Answer |-> <<ARecord(<<127, 1>>)>>] }

(***************************************************************************)
(* is_valid_ip and google_resolve                                          *)
(***************************************************************************)
GOOGLEDNS_SUCCESS == 0
GOOGLEDNS_A_RECORD == 1

\* socket.inet_aton(ip_string) does not raise socket.error: one to four
\* numeric parts, the last one filling the bytes the others leave
is_valid_ip(ip_string) ==
    LET n == Len(ip_string)
    IN  /\ n \in 1..4
        /\ \A i \in 1..n : ip_string[i] >= 0
        /\ \A i \in 1..(n - 1) : ip_string[i] <= 255
        /\ CASE n = 4 -> ip_string[n] <= 255
             [] n = 3 -> ip_string[n] <= 65535
             [] n = 2 -> ip_string[n] <= 16777215
             [] OTHER -> TRUE

\* google_resolve flagging an address that fails is_valid_ip as an error while
\* still returning it
google_resolve_flagging(response) ==
    IF response.raises
    THEN NotResolved
    ELSE IF response.Status = GOOGLEDNS_SUCCESS /\ response.hasAnswer
            /\ response.Answer # <<>>
            /\ response.Answer[1].type = GOOGLEDNS_A_RECORD
         THEN [ip |-> response.Answer[1].data,
               is_error |-> ~is_valid_ip(response.Answer[1].data)]
         ELSE NotResolved

\* google_resolve with the handler's other return: a failure to reach the
\* service is reported as an error
google_resolve_surfacing(response) ==
    IF response.raises
    THEN ResolutionError
    ELSE IF response.Status = GOOGLEDNS_SUCCESS /\ response.hasAnswer
            /\ response.Answer # <<>>
            /\ response.Answer[1].type = GOOGLEDNS_A_RECORD
            /\ is_valid_ip(response.Answer[1].data)
    THEN Resolved(response.Answer[1].data)
    ELSE NotResolved

\* the outcome of google_resolve given what requests.get(...).json() does
google_resolve(response) ==
    IF response.raises
    THEN NotResolved                             \* except Exception: return False, False
    ELSE IF response.Status = GOOGLEDNS_SUCCESS /\ response.hasAnswer
    THEN IF response.Answer = <<>>
         THEN NotResolved                        \* IndexError, caught
         ELSE LET answer == response.Answer[1]
              IN  IF answer.type = GOOGLEDNS_A_RECORD /\ is_valid_ip(answer.data)
                  THEN Resolved(answer.data)
                  ELSE NotResolved
    ELSE NotResolved

(***************************************************************************)
(* The cache behind @cache.memoize(3600)                                   *)
(***************************************************************************)
\* memoize with half an hour, and with two hours
TTLShort == 30 * 60
TTLLong == 2 * 60 * 60

TTL == 3600

\* the key memoize derives from the call's argument
make_cache_key(domain) == domain

\* cache.get(key): the entry is live while its expiry lies ahead
CacheLive(key) == key \in DOMAIN cache /\ cache[key].expires > clock

\* cache.set(key, value, timeout)
CacheSet(key, value, timeout) ==
    [k \in DOMAIN cache \cup {key} |->
        IF k = key THEN [value |-> value, expires |-> clock + timeout] ELSE cache[k]]

(***************************************************************************)
(* Double-precision arithmetic, as Python's float does it.                 *)
(* A positive float is [bits, exp]: bits is its significand, most          *)
(* significant bit first, starting with 1 and at most 53 bits long; its    *)
(* value is the integer bits spell times 2^exp.                            *)
(***************************************************************************)
MantissaBits == 53

Zeros(n) == [i \in 1..n |-> 0]

\* b without its leading zeros
StripZeros(b) ==
    IF \A i \in 1..Len(b) : b[i] = 0 THEN <<>>
    ELSE LET first == CHOOSE i \in 1..Len(b) : b[i] = 1 /\ \A j \in 1..(i - 1) : b[j] = 0
         IN  SubSeq(b, first, Len(b))

\* the ten binary digits of 0 <= q < 1024, most significant first
Chunk(q) == [i \in 1..10 |-> (q \div 2^(10 - i)) % 2]

\* the binary digits of 0 <= n < 2^30, most significant first (<<>> for 0)
ToBits(n) == StripZeros([i \in 1..30 |-> (n \div 2^(30 - i)) % 2])

\* the integer a bit sequence spells
RECURSIVE FromBits(_)
FromBits(b) ==
    IF b = <<>> THEN 0 ELSE 2 * FromBits(SubSeq(b, 1, Len(b) - 1)) + b[Len(b)]

\* b + 1
IncBits(b) ==
    IF \A i \in 1..Len(b) : b[i] = 1 THEN <<1>> \o Zeros(Len(b))
    ELSE LET last == CHOOSE i \in 1..Len(b) : b[i] = 0 /\ \A j \in (i + 1)..Len(b) : b[j] = 1
         IN  [i \in 1..Len(b) |-> IF i < last THEN b[i] ELSE IF i = last THEN 1 ELSE 0]

\* round to nearest, ties to even: b is an exact significand, sticky says that
\* a non-zero remainder lies below its last bit
RoundBits(b, sticky, exp) ==
    IF Len(b) <= MantissaBits
    THEN [bits |-> b, exp |-> exp]
    ELSE LET kept == SubSeq(b, 1, MantissaBits)
             rest == SubSeq(b, MantissaBits + 1, Len(b))
             guard == rest[1]
             below == sticky \/ \E i \in 2..Len(rest) : rest[i] = 1
             up == guard = 1 /\ (below \/ kept[MantissaBits] = 1)
             m == IF up THEN IncBits(kept) ELSE kept
             e == exp + Len(rest)
         IN  IF Len(m) > MantissaBits
             THEN [bits |-> SubSeq(m, 1, MantissaBits), exp |-> e + 1]
             ELSE [bits |-> m, exp |-> e]

\* long division of r / k (r < k < 2^21), ten binary places at a time
RECURSIVE DivChunks(_, _, _)
DivChunks(r, k, n) ==
    IF n = 0 THEN [bits |-> <<>>, rem |-> r]
    ELSE LET rest == DivChunks((r * 1024) % k, k, n - 1)
         IN  [bits |-> Chunk((r * 1024) \div k) \o rest.bits, rem |-> rest.rem]

\* float(n) / k for integers 0 < n < 2^30, 0 < k < 2^21: eighty binary places
\* of the quotient, rounded
FloatDiv(n, k) ==
    LET q == DivChunks(n % k, k, 8)
    IN  RoundBits(StripZeros(ToBits(n \div k) \o q.bits), q.rem # 0, -80)

\* 1 - x for a float 0 < x < 1: 2^n - B, in units of 2^(-n)
OneMinus(x) ==
    LET n == -x.exp
        B == Zeros(n - Len(x.bits)) \o x.bits
    IN  RoundBits(StripZeros(IncBits([i \in 1..n |-> 1 - B[i]])), FALSE, x.exp)

\* the digits of b in base 1024, most significant first
Limbs(b) ==
    LET n == (Len(b) + 9) \div 10
        padded == Zeros(10 * n - Len(b)) \o b
    IN  [j \in 1..n |-> FromBits(SubSeq(padded, 10 * (j - 1) + 1, 10 * j))]

\* limbs * d + carry, in binary, for 0 <= d < 2^20
RECURSIVE MulLimbs(_, _, _)
MulLimbs(limbs, d, carry) ==
    IF limbs = <<>> THEN ToBits(carry)
    ELSE LET n == Len(limbs)
             v == limbs[n] * d + carry
         IN  MulLimbs(SubSeq(limbs, 1, n - 1), d, v \div 1024) \o Chunk(v % 1024)

\* float(d) * x for an integer 0 < d < 2^20
FloatMul(d, x) == RoundBits(StripZeros(MulLimbs(Limbs(x.bits), d, 0)), FALSE, x.exp)

\* int(x): the integer part
FloatToInt(x) ==
    IF x.exp >= 0 THEN FromBits(x.bits \o Zeros(x.exp))
    ELSE IF Len(x.bits) + x.exp <= 0 THEN 0
    ELSE FromBits(SubSeq(x.bits, 1, Len(x.bits) + x.exp))

(***************************************************************************)
(* noisy_domains: the sliding window of deltas                             *)
(***************************************************************************)
WINDOW_SIZE == 30

\* Time is counted in ticks, TicksPerDay of them to the day.
TicksPerDay == 2
MaxDay == 61
MaxDeltas == 100
MaxIncrements == 2
MaxUpdates == 2

Days(n) == n * TicksPerDay
Times == 0..(Days(MaxDay + 1) - 1)

\* timedelta.days: the whole days of a non-negative span
WholeDays(span) == span \div TicksPerDay

initialise_record(domain, now) ==
    [domain |-> domain, window_last_checked |-> now, window_start |-> now, deltas |-> 0]

\* delta_factor = 1 - ((WINDOW_SIZE / 2.0) / days), for 2 * days > WINDOW_SIZE
RescaleFactor(days) == OneMinus(FloatDiv(WINDOW_SIZE, 2 * days))

\* update comparing the age of the window with the size of the move
updateHalfWindow(domain_stats, now) ==
    LET checked == [domain_stats EXCEPT !.window_last_checked = now]
        window_start == domain_stats.window_start
        window_age == now - window_start
        move_size == Days(WINDOW_SIZE) \div 2
        days == WholeDays(window_age)
    IN  IF window_age <= move_size THEN checked
        ELSE [checked EXCEPT !.window_start = window_start + move_size,
                             !.deltas = IF domain_stats.deltas = 0 \/ WINDOW_SIZE = 2 * days
                                        THEN 0
                                        ELSE FloatToInt(FloatMul(domain_stats.deltas,
                                                                 RescaleFactor(days)))]

\* delta_factor, computed once for the days the bounds allow
FactorMemo == [days \in WINDOW_SIZE..MaxDay |-> RescaleFactor(days)]

Factor(days) ==
    IF days \in DOMAIN FactorMemo THEN FactorMemo[days] ELSE RescaleFactor(days)

\* the rescaling with the whole window, not half of it, over the days
RescaleDeltasFullWindow(deltas, days) ==
    IF deltas = 0 THEN 0
    ELSE IF WINDOW_SIZE = days THEN 0
    ELSE FloatToInt(FloatMul(deltas, OneMinus(FloatDiv(WINDOW_SIZE, days))))

\* int(deltas * delta_factor)
RescaleDeltas(deltas, days) ==
    IF deltas = 0 THEN 0
    ELSE IF WINDOW_SIZE = 2 * days THEN 0          \* the factor is 0.0
    ELSE FloatToInt(FloatMul(deltas, RescaleFactor(days)))

\* RescaleDeltas, computed once for the inputs the bounds allow
RescaleMemo ==
    [deltas \in 0..MaxDeltas, days \in WINDOW_SIZE..MaxDay |-> RescaleDeltas(deltas, days)]

Rescale(deltas, days) ==
    IF <<deltas, days>> \in DOMAIN RescaleMemo
    THEN RescaleMemo[deltas, days]
    ELSE RescaleDeltas(deltas, days)

\* update moving the window by its whole size
updateFullHop(domain_stats, now) ==
    LET checked == [domain_stats EXCEPT !.window_last_checked = now]
        window_start == domain_stats.window_start
        window_age == now - window_start
        breakpoint == Days(WINDOW_SIZE)
    IN  IF window_age <= breakpoint THEN checked
        ELSE [checked EXCEPT !.window_start = window_start + Days(WINDOW_SIZE),
                             !.deltas = Rescale(domain_stats.deltas, WholeDays(window_age))]

\* update with the window's boundary on the other side
updateStrictBoundary(domain_stats, now) ==
    LET checked == [domain_stats EXCEPT !.window_last_checked = now]
        window_start == domain_stats.window_start
        window_age == now - window_start
    IN  IF window_age < Days(WINDOW_SIZE)
        THEN checked
        ELSE [checked EXCEPT !.window_start = window_start + (Days(WINDOW_SIZE) \div 2),
                             !.deltas = Rescale(domain_stats.deltas, WholeDays(window_age))]

update(domain_stats, now) ==
    LET checked == [domain_stats EXCEPT !.window_last_checked = now]
        window_start == domain_stats.window_start
        window_age == now - window_start
        breakpoint == Days(WINDOW_SIZE)
        move_size == Days(WINDOW_SIZE) \div 2
    IN  IF window_age <= breakpoint
        THEN checked
        ELSE [checked EXCEPT !.window_start = window_start + move_size,
                             !.deltas = Rescale(domain_stats.deltas, WholeDays(window_age))]

(***************************************************************************)
(* State                                                                   *)
(***************************************************************************)
NoDomain == <<>>
NoOutcome == [ip |-> NoAddr, is_error |-> FALSE]
Ev(op, c) == [op |-> op, c |-> c]

ResolveInit ==
    /\ cache = <<>>
    /\ clock = 0
    /\ ticks = 0
    /\ pc = [c \in Callers |-> "idle"]
    /\ arg = [c \in Callers |-> NoDomain]
    /\ result = [c \in Callers |-> NoOutcome]
    /\ ret = [c \in Callers |-> NoOutcome]
    /\ calls = [c \in Callers |-> <<>>]
    /\ event = Ev("init", 0)
    /\ written = [d \in Domains |-> [at |-> -1, value |-> NoOutcome]]

\* the record of one backend invocation: whether it raised, and the address it
\* returned (NoAddr for none)
Invoked(c, backend, raised, returned) ==
    Append(calls[c], [backend |-> backend, raised |-> raised, returned |-> returned])

(***************************************************************************)
(* resolve, step by step                                                   *)
(***************************************************************************)
\* The memoize wrapper is entered: a live entry is returned as it is, anything
\* else starts the body of resolve.
MemoizeEnter(c, domain) ==
    /\ pc[c] = "idle"
    /\ calls' = [calls EXCEPT ![c] = <<>>]
    /\ IF CacheLive(make_cache_key(domain))
       THEN /\ ret' = [ret EXCEPT ![c] = cache[make_cache_key(domain)].value]
            /\ arg' = [arg EXCEPT ![c] = domain]
            /\ event' = Ev("hit", c)
            /\ UNCHANGED pc
       ELSE /\ pc' = [pc EXCEPT ![c] = "validate"]
            /\ arg' = [arg EXCEPT ![c] = domain]
            /\ event' = Ev("miss", c)
            /\ UNCHANGED ret
    /\ UNCHANGED <<cache, clock, ticks, result, written>>

\* Sequential use: every call comes from the one caller SeqCaller.
SeqCaller == CHOOSE c \in Callers : \A o \in Callers : c <= o

Call(domain) ==
    /\ MemoizeEnter(SeqCaller, domain)
    /\ UNCHANGED noiseVars

\* resolve without the early return for an invalid domain
ValidateFallsThrough(c) ==
    /\ pc[c] = "validate"
    /\ pc' = [pc EXCEPT ![c] = "query"]
    /\ event' = Ev("validate", c)
    /\ UNCHANGED <<cache, clock, ticks, arg, result, ret, calls, written>>
    /\ UNCHANGED noiseVars

\* if dnstwist.validate_domain(domain) is None: return False, True
Validate(c) ==
    /\ pc[c] = "validate"
    /\ IF ~validate_domain(arg[c])
       THEN /\ result' = [result EXCEPT ![c] = ResolutionError]
            /\ pc' = [pc EXCEPT ![c] = "store"]
       ELSE /\ pc' = [pc EXCEPT ![c] = "query"]
            /\ UNCHANGED result
    /\ event' = Ev("validate", c)
    /\ UNCHANGED <<cache, clock, ticks, arg, ret, calls, written>>
    /\ UNCHANGED noiseVars

\* Try for an 'A' record.
QueryA(c, a) ==
    /\ pc[c] = "query"
    /\ IF ~a.raises /\ a.answer # <<>>
       THEN /\ result' = [result EXCEPT ![c] = Resolved(SortedFirst(a.answer))]
            /\ calls' = [calls EXCEPT ![c] = Invoked(c, "query", FALSE, SortedFirst(a.answer))]
            /\ pc' = [pc EXCEPT ![c] = "store"]
       ELSE /\ calls' = [calls EXCEPT ![c] = Invoked(c, "query", TRUE, NoAddr)]
            /\ pc' = [pc EXCEPT ![c] = "gethostbyname"]
            /\ UNCHANGED result
    /\ event' = Ev("query", c)
    /\ UNCHANGED <<cache, clock, ticks, arg, ret, written>>
    /\ UNCHANGED noiseVars

\* the simple resolution without its return: the address is kept but the
\* cascade goes on
GetHostByNameNoReturn(c, h) ==
    /\ pc[c] = "gethostbyname"
    /\ calls' = [calls EXCEPT ![c] = Invoked(c, "gethostbyname", h.raises, h.addr)]
    /\ IF ~h.raises /\ h.addr # Loopback
       THEN result' = [result EXCEPT ![c] = Resolved(h.addr)]
       ELSE UNCHANGED result
    /\ pc' = [pc EXCEPT ![c] = "google"]
    /\ event' = Ev("gethostbyname", c)
    /\ UNCHANGED <<cache, clock, ticks, arg, ret, written>>
    /\ UNCHANGED noiseVars

\* the simple resolution without the test for 127.0.0.1
GetHostByNameKeepsLoopback(c, h) ==
    /\ pc[c] = "gethostbyname"
    /\ calls' = [calls EXCEPT ![c] = Invoked(c, "gethostbyname", h.raises, h.addr)]
    /\ IF ~h.raises
       THEN /\ result' = [result EXCEPT ![c] = Resolved(h.addr)]
            /\ pc' = [pc EXCEPT ![c] = "store"]
       ELSE /\ pc' = [pc EXCEPT ![c] = "google"]
            /\ UNCHANGED result
    /\ event' = Ev("gethostbyname", c)
    /\ UNCHANGED <<cache, clock, ticks, arg, ret, written>>
    /\ UNCHANGED noiseVars

\* Try for a simple resolution if the 'A' record request failed.
GetHostByName(c, h) ==
    /\ pc[c] = "gethostbyname"
    /\ calls' = [calls EXCEPT ![c] = Invoked(c, "gethostbyname", h.raises, h.addr)]
    /\ IF ~h.raises /\ h.addr # Loopback
       THEN /\ result' = [result EXCEPT ![c] = Resolved(h.addr)]
            /\ pc' = [pc EXCEPT ![c] = "store"]
       ELSE /\ pc' = [pc EXCEPT ![c] = "google"]
            /\ UNCHANGED result
    /\ event' = Ev("gethostbyname", c)
    /\ UNCHANGED <<cache, clock, ticks, arg, ret, written>>
    /\ UNCHANGED noiseVars

\* return google_resolve(domain)
GoogleResolve(c, r) ==
    /\ pc[c] = "google"
    /\ calls' = [calls EXCEPT ![c] = Invoked(c, "google", r.raises, google_resolve(r).ip)]
    /\ result' = [result EXCEPT ![c] = google_resolve(r)]
    /\ pc' = [pc EXCEPT ![c] = "store"]
    /\ event' = [op |-> "google", c |-> c, response |-> r]
    /\ UNCHANGED <<cache, clock, ticks, arg, ret, written>>
    /\ UNCHANGED noiseVars

\* a wrapper that stores addresses only
StoreSkipsNoAddr(c) ==
    /\ pc[c] = "store"
    /\ IF result[c].ip # NoAddr
       THEN /\ cache' = CacheSet(make_cache_key(arg[c]), result[c], TTL)
            /\ written' = [written EXCEPT ![make_cache_key(arg[c])] =
                                             [at |-> clock, value |-> result[c]]]
       ELSE UNCHANGED <<cache, written>>
    /\ ret' = [ret EXCEPT ![c] = result[c]]
    /\ result' = [result EXCEPT ![c] = NoOutcome]
    /\ pc' = [pc EXCEPT ![c] = "idle"]
    /\ event' = Ev("store", c)
    /\ UNCHANGED <<clock, ticks, arg, calls>>
    /\ UNCHANGED noiseVars

\* a wrapper that stores with cache.add: a live entry is left as it is
StoreIfAbsent(c) ==
    /\ pc[c] = "store"
    /\ IF CacheLive(make_cache_key(arg[c]))
       THEN UNCHANGED <<cache, written>>
       ELSE /\ cache' = CacheSet(make_cache_key(arg[c]), result[c], TTL)
            /\ written' = [written EXCEPT ![make_cache_key(arg[c])] =
                                             [at |-> clock, value |-> result[c]]]
    /\ ret' = [ret EXCEPT ![c] = result[c]]
    /\ result' = [result EXCEPT ![c] = NoOutcome]
    /\ pc' = [pc EXCEPT ![c] = "idle"]
    /\ event' = Ev("store", c)
    /\ UNCHANGED <<clock, ticks, arg, calls>>
    /\ UNCHANGED noiseVars

\* The memoize wrapper stores what the body returned and returns it.
Store(c) ==
    /\ pc[c] = "store"
    /\ cache' = CacheSet(make_cache_key(arg[c]), result[c], TTL)
    /\ written' = [written EXCEPT ![make_cache_key(arg[c])] = [at |-> clock, value |-> result[c]]]
    /\ ret' = [ret EXCEPT ![c] = result[c]]
    /\ result' = [result EXCEPT ![c] = NoOutcome]
    /\ pc' = [pc EXCEPT ![c] = "idle"]
    /\ event' = Ev("store", c)
    /\ UNCHANGED <<clock, ticks, arg, calls>>
    /\ UNCHANGED noiseVars

\* Time passes.
TickSteps == {1, 3599}

Tick(dt) ==
    /\ ticks < MaxTicks
    /\ clock' = clock + dt
    /\ ticks' = ticks + 1
    /\ event' = Ev("tick", 0)
    /\ UNCHANGED <<cache, pc, arg, result, ret, calls, written>>
    /\ UNCHANGED noiseVars

\* The noise pipeline is not running.
NoiseIdle ==
    /\ stats = initialise_record(NoDomain, 0)
    /\ noiseEvent = [op |-> "off", now |-> 0]
    /\ increments = 0
    /\ updates = 0

Init == ResolveInit /\ NoiseIdle

Next ==
    \/ \E d \in Domains : Call(d)
    \/ \E c \in Callers : Validate(c)
    \/ \E c \in Callers, a \in QueryAnswers : QueryA(c, a)
    \/ \E c \in Callers, h \in HostAnswers : GetHostByName(c, h)
    \/ \E c \in Callers, r \in GoogleResponses : GoogleResolve(c, r)
    \/ \E c \in Callers : Store(c)
    \/ \E dt \in TickSteps : Tick(dt)

Spec == Init /\ [][Next]_vars

(***************************************************************************)
(* Concurrent use: both callers call resolve, for the same domain, and     *)
(* their steps interleave.  The wrapper holds no lock between its lookup   *)
(* and its store.                                                          *)
(***************************************************************************)
RaceDomains == { <<"a", ".", "c", "o">> }

CallRace(c, domain) ==
    /\ MemoizeEnter(c, domain)
    /\ UNCHANGED noiseVars

NextRace ==
    \/ \E c \in Callers, d \in RaceDomains : CallRace(c, d)
    \/ \E c \in Callers : Validate(c)
    \/ \E c \in Callers, a \in QueryAnswers : QueryA(c, a)
    \/ \E c \in Callers, h \in HostAnswers : GetHostByName(c, h)
    \/ \E c \in Callers, r \in GoogleResponses : GoogleResolve(c, r)
    \/ \E c \in Callers : Store(c)
    \/ \E dt \in TickSteps : Tick(dt)

SpecRace == Init /\ [][NextRace]_vars

(***************************************************************************)
(* The noise pipeline: a record is initialised, the caller counts the      *)
(* changes it observes and calls update.                                   *)
(***************************************************************************)
NoiseDomain == <<"a", ".", "c", "o">>
InitTimes == {0}
IncrementSteps == {1, 12, 100}

NoiseInit ==
    /\ ResolveInit
    /\ \E now \in InitTimes :
          /\ stats = initialise_record(NoiseDomain, now)
          /\ noiseEvent = [op |-> "initialise", now |-> now]
    /\ increments = 0
    /\ updates = 0

\* The caller counts k observed changes.
Increment(k) ==
    /\ increments < MaxIncrements
    /\ stats.deltas + k <= MaxDeltas
    /\ stats' = [stats EXCEPT !.deltas = @ + k]
    /\ noiseEvent' = [op |-> "increment", now |-> 0]
    /\ increments' = increments + 1
    /\ UNCHANGED updates
    /\ UNCHANGED resolveVars

Update(now) ==
    /\ updates < MaxUpdates
    /\ stats' = update(stats, now)
    /\ noiseEvent' = [op |-> "update", now |-> now]
    /\ updates' = updates + 1
    /\ UNCHANGED increments
    /\ UNCHANGED resolveVars

NextNoise ==
    \/ \E k \in IncrementSteps : Increment(k)
    \/ \E now \in Times : Update(now)

SpecNoise == NoiseInit /\ [][NextNoise]_vars

(***************************************************************************)
(* update applied again and again to its own result with one fixed now     *)
(***************************************************************************)
MaxReapplies == 6

\* the changes counted before the first call of update
Observe(k) ==
    /\ updates = 0
    /\ Increment(k)

\* the first call fixes now
FirstUpdate(now) ==
    /\ updates = 0
    /\ Update(now)

\* update(update(...), now) with the now of the first call
Reapply ==
    /\ noiseEvent.op = "update"
    /\ updates < MaxReapplies
    /\ stats' = update(stats, noiseEvent.now)
    /\ updates' = updates + 1
    /\ UNCHANGED <<noiseEvent, increments>>
    /\ UNCHANGED resolveVars

NextConverge ==
    \/ \E k \in IncrementSteps : Observe(k)
    \/ \E now \in Times : FirstUpdate(now)
    \/ Reapply

\* the caller goes on calling update
SpecConverge == NoiseInit /\ [][NextConverge]_vars /\ WF_vars(Reapply)

(***************************************************************************)
(* Properties of resolve (specification Spec)                              *)
(***************************************************************************)
Hour == 60 * 60

\* the step now taken is a call of resolve by c / the end of c's cascade run
CallBy(c) == event'.op \in {"hit", "miss"} /\ event'.c = c
StoreBy(c) == pc[c] = "store" /\ event' = Ev("store", c)

\* the entry of domain was written less than an hour ago
WrittenWithinHour(domain) ==
    /\ written[make_cache_key(domain)].at >= 0
    /\ clock - written[make_cache_key(domain)].at < Hour

LastWritten(domain) == written[make_cache_key(domain)].value

\* what a backend yielded to the cascade: the system lookup's 127.0.0.1 is the
\* lookup finding nothing (spec 4.1)
Yield(call) ==
    IF call.backend = "gethostbyname" /\ call.returned = Loopback
    THEN NoAddr
    ELSE call.returned

BackendOrder == <<"query", "gethostbyname", "google">>

\* C1: a call for a domain the validator rejects returns ResolutionError and
\* invokes none of the three backends.
ValidationShortCircuit ==
    \A c \in Callers :
        (arg[c] \in Domains /\ ~validate_domain(arg[c])) =>
            /\ calls[c] = <<>>
            /\ pc[c] \in {"validate", "store", "idle"}
            /\ pc[c] = "store" => result[c] = ResolutionError
            /\ pc[c] = "idle" => ret[c] = ResolutionError

ValidationShortCircuitWitness ==
    \E c \in Callers :
        /\ event = Ev("store", c)
        /\ ~validate_domain(arg[c])
        /\ ret[c] = ResolutionError
        /\ calls[c] = <<>>

\* C2: the backends are invoked in the order query, gethostbyname, google, each
\* only after all earlier ones yielded no address; a backend that yields an
\* address ends the run, which returns Resolved with that address.
CascadeOrdering ==
    \A c \in Callers :
        LET n == Len(calls[c])
        IN  /\ n <= 3
            /\ \A i \in 1..n : calls[c][i].backend = BackendOrder[i]
            /\ \A i \in 1..(n - 1) : Yield(calls[c][i]) = NoAddr
            /\ (n > 0 /\ Yield(calls[c][n]) # NoAddr) =>
                  /\ pc[c] \in {"store", "idle"}
                  /\ pc[c] = "store" => result[c] = Resolved(calls[c][n].returned)
                  /\ pc[c] = "idle" => ret[c] = Resolved(calls[c][n].returned)

\* only the system lookup succeeds: its address is returned, google is not called
CascadeOrderingWitness ==
    \E c \in Callers :
        /\ event = Ev("store", c)
        /\ Len(calls[c]) = 2
        /\ calls[c][1].raised
        /\ calls[c][2] = [backend |-> "gethostbyname", raised |-> FALSE, returned |-> Addr2]
        /\ ret[c] = Resolved(Addr2)

\* C3: a call for a domain whose entry was written less than 3600 seconds ago
\* returns the stored outcome, the one the writing call returned, and invokes
\* no backend: the cascade is not run.
CacheHit ==
    [][\A c \in Callers :
          (CallBy(c) /\ WrittenWithinHour(arg'[c])) =>
              /\ event'.op = "hit"
              /\ ret'[c] = LastWritten(arg'[c])
              /\ calls'[c] = <<>>
              /\ pc'[c] = "idle"
              /\ cache' = cache]_vars

\* a hit in the last second of the hour, returning an address
CacheHitWitness ==
    \E c \in Callers :
        /\ event = Ev("hit", c)
        /\ clock - written[make_cache_key(arg[c])].at = Hour - 1
        /\ ret[c] = Resolved(Addr1)

\* C4: a call for a domain with no entry, or with one written an hour ago or
\* more, runs the cascade again; the run's outcome is stored with an expiry one
\* hour ahead and is what the call returns.
CacheExpiry ==
    [][\A c \in Callers :
          /\ (CallBy(c) /\ ~WrittenWithinHour(arg'[c])) =>
                /\ event'.op = "miss"
                /\ pc'[c] = "validate"
                /\ ret'[c] = ret[c]
          /\ StoreBy(c) =>
                /\ ret'[c] = result[c]
                /\ make_cache_key(arg[c]) \in DOMAIN cache'
                /\ cache'[make_cache_key(arg[c])] = [value |-> result[c], expires |-> clock + Hour]]_vars

\* the cascade ran again for an entry exactly one hour old and replaced it
CacheExpiryWitness ==
    \E c \in Callers :
        /\ event = Ev("store", c)
        /\ clock >= Hour
        /\ written[make_cache_key(arg[c])].at = clock
        /\ cache[make_cache_key(arg[c])].expires = clock + Hour
        /\ calls[c] # <<>>

\* C5: NotResolved and ResolutionError are stored like an address is, that of
\* an invalid domain included, and a call within the hour gets the stored
\* outcome without validation and without any backend.
EveryOutcomeCached ==
    [][\A c \in Callers :
          /\ (StoreBy(c) /\ result[c].ip = NoAddr) =>
                /\ make_cache_key(arg[c]) \in DOMAIN cache'
                /\ cache'[make_cache_key(arg[c])].value = result[c]
                /\ cache'[make_cache_key(arg[c])].expires - clock = Hour
          /\ (CallBy(c) /\ pc[c] = "idle" /\ WrittenWithinHour(arg'[c])
                /\ LastWritten(arg'[c]).ip = NoAddr) =>
                /\ pc'[c] = "idle"
                /\ calls'[c] = <<>>
                /\ ret'[c] = LastWritten(arg'[c])]_vars

\* the error of an invalid domain is served from the cache
EveryOutcomeCachedWitness ==
    \E c \in Callers :
        /\ event = Ev("hit", c)
        /\ ~validate_domain(arg[c])
        /\ ret[c] = ResolutionError
        /\ clock > written[make_cache_key(arg[c])].at

\* C8: when gethostbyname returns 127.0.0.1 the run does not end there: google
\* is invoked next and the run's outcome is google's.
LoopbackQuirk ==
    \A c \in Callers :
        (Len(calls[c]) >= 2 /\ calls[c][2].returned = Loopback) =>
            IF Len(calls[c]) = 2
            THEN pc[c] = "google"
            ELSE /\ calls[c][3].backend = "google"
                 /\ pc[c] \in {"store", "idle"}
                 /\ pc[c] = "store" =>
                       result[c] = [ip |-> calls[c][3].returned, is_error |-> FALSE]
                 /\ pc[c] = "idle" =>
                       ret[c] = [ip |-> calls[c][3].returned, is_error |-> FALSE]

LoopbackQuirkWitness ==
    \E c \in Callers :
        /\ event = Ev("store", c)
        /\ Len(calls[c]) = 3
        /\ calls[c][2] = [backend |-> "gethostbyname", raised |-> FALSE, returned |-> Loopback]
        /\ ret[c] = Resolved(Addr1)

AllRaised(c) == Len(calls[c]) = 3 /\ \A i \in 1..3 : calls[c][i].raised

OutcomeTellsFailureFromAbsence ==
    \A c \in Callers :
        event = Ev("store", c) =>
            /\ ret[c] = NotResolved => \A i \in 1..Len(calls[c]) : ~calls[c][i].raised
            /\ AllRaised(c) => ret[c] = ResolutionError

(***************************************************************************)
(* The outcome triple, the cache key, the race (Spec, SpecRace)            *)
(***************************************************************************)
\* an outcome is an address without error, no address without error, or no
\* address with error
TriState(outcome) ==
    \/ outcome = NotResolved
    \/ outcome = ResolutionError
    \/ outcome.ip # NoAddr /\ outcome = Resolved(outcome.ip)

\* C11: whatever resolve computes, returns or stores is Resolved(ip),
\* NotResolved or ResolutionError; an address never comes with is_error set.
TriStateOutcome ==
    /\ \A c \in Callers : TriState(ret[c]) /\ TriState(result[c])
    /\ \A k \in DOMAIN cache : TriState(cache[k].value)

\* the cache holds an outcome of each of the three kinds
TriStateOutcomeWitness ==
    /\ \E k \in DOMAIN cache : cache[k].value = ResolutionError
    /\ \E k \in DOMAIN cache : cache[k].value = NotResolved
    /\ \E k \in DOMAIN cache : cache[k].value.ip # NoAddr
    /\ \E c \in Callers : event = Ev("store", c)

\* the domains that differ from domain in letter case at most, written within
\* the hour, and among them those written last
VariantsWritten(domain) ==
    {d \in Domains : Lower(d) = Lower(domain) /\ WrittenWithinHour(d)}

LatestVariants(domain) ==
    {d \in VariantsWritten(domain) :
        \A e \in VariantsWritten(domain) :
            written[make_cache_key(e)].at <= written[make_cache_key(d)].at}

\* C12: a call within an hour of a stored outcome for a domain that differs in
\* letter case at most is a hit: it returns that outcome, no backend invoked.
CaseInsensitiveKey ==
    [][\A c \in Callers :
          (CallBy(c) /\ VariantsWritten(arg'[c]) # {}) =>
              /\ event' = Ev("hit", c)
              /\ \E d \in LatestVariants(arg'[c]) : ret'[c] = LastWritten(d)
              /\ calls'[c] = <<>>
              /\ pc'[c] = "idle"]_vars

\* both callers have finished a call for domain
BothDone(domain) == \A c \in Callers : pc[c] = "idle" /\ arg[c] = domain

\* the end of c's run writes c's outcome under the domain's key, to expire an
\* hour later, and returns that outcome to c
RunEndsWithOwnOutcome(c) ==
    LET key == make_cache_key(arg[c])
    IN  /\ TriState(result[c])
        /\ ret'[c] = result[c]
        /\ \A o \in Callers \ {c} : ret'[o] = ret[o]
        /\ DOMAIN cache' = DOMAIN cache \cup {key}
        /\ cache'[key] = [value |-> result[c], expires |-> clock + Hour]
        /\ \A k \in DOMAIN cache \ {key} : cache'[k] = cache[k]

\* C16: when the runs of two callers for one domain interleave, each caller
\* is returned the outcome its own run computed, each run writes the entry,
\* and once both are done the domain has one entry, holding the outcome of
\* one of the two and expiring an hour after it was written.
RaceWithoutSingleFlight ==
    /\ [][\A c \in Callers : StoreBy(c) => RunEndsWithOwnOutcome(c)]_vars
    /\ [](\A d \in RaceDomains :
             BothDone(d) =>
                 /\ Cardinality({k \in DOMAIN cache : k = make_cache_key(d)}) = 1
                 /\ \E c \in Callers : cache[make_cache_key(d)].value = ret[c]
                 /\ cache[make_cache_key(d)].expires = written[make_cache_key(d)].at + Hour
                 /\ written[make_cache_key(d)].at \in 0..clock)

\* no time has passed, so neither run could follow the other's write: both
\* callers missed, both went through the three backends, both wrote, and the
\* entry is the outcome of the caller that wrote last, not the other's
RaceWithoutSingleFlightWitness ==
    /\ BothDone(<<"a", ".", "c", "o">>)
    /\ ticks = 0
    /\ \A c \in Callers : Len(calls[c]) = 3
    /\ event = Ev("store", 1)
    /\ ret[1] = NotResolved
    /\ ret[2] = Resolved(Addr1)
    /\ cache[make_cache_key(<<"a", ".", "c", "o">>)] = [value |-> NotResolved, expires |-> Hour]

\* an IPv4 literal: four decimal parts, each of them a byte
IsIPv4Literal(data) == Len(data) = 4 /\ \A i \in 1..4 : data[i] \in 0..255

\* the response has Status 0 and a non-empty Answer whose first entry is an A
\* record carrying an IPv4 literal
Accepted(response) ==
    /\ ~response.raises
    /\ response.Status = 0
    /\ response.hasAnswer
    /\ response.Answer # <<>>
    /\ response.Answer[1].type = 1
    /\ IsIPv4Literal(response.Answer[1].data)

\* C17: google_resolve returns Resolved(ip), ip the data of the first Answer
\* entry, exactly for a response with Status 0 whose first Answer entry is an A
\* record with an IPv4 literal; for every other response, and when the request
\* or the parsing fails, it returns NotResolved.
DoHAcceptanceRule ==
    event.op = "google" =>
        IF Accepted(event.response)
        THEN result[event.c] = Resolved(event.response.Answer[1].data)
        ELSE result[event.c] = NotResolved

(***************************************************************************)
(* Properties of update (specification SpecNoise)                          *)
(***************************************************************************)
\* the step now taken is a call of update
UpdateStep == updates' = updates + 1 /\ noiseEvent'.op = "update"

\* the age of the window at the call, and its whole days
AgeAtCall == noiseEvent'.now - stats.window_start
AgeDaysAtCall == AgeAtCall \div TicksPerDay

\* C13: in every record reached from initialise_record by increments and
\* update calls, whatever now they are given, window_last_checked is not
\* earlier than window_start.
LastCheckedNotBeforeStart ==
    stats.window_last_checked >= stats.window_start

\* the step now taken is a call of update that moved the window: it went
\* through the rescaling of deltas
RescaleReached == UpdateStep /\ stats'.window_start # stats.window_start

\* a float in [0.5, 1): its leading bit has the weight 1/2
InHalfToOne(x) == Len(x.bits) + x.exp = 0

\* C14: whenever update reaches the rescaling step the whole days of the age
\* it divides by are 30 or more, never zero, and the factor is in [0.5, 1).
RescaleDivisor ==
    [][RescaleReached =>
          /\ AgeDaysAtCall >= 30
          /\ AgeDaysAtCall # 0
          /\ InHalfToOne(Factor(AgeDaysAtCall))]_vars

\* update rescaled at 30 whole days, the smallest divisor: 100 became 50
RescaleDivisorWitness ==
    /\ noiseEvent.op = "update"
    /\ updates = 1
    /\ noiseEvent.now = 30 * TicksPerDay + 1
    /\ stats.window_start = 15 * TicksPerDay
    /\ stats.deltas = 50

\* C15: update never raises deltas and never makes it negative, and a
\* rescaling leaves at least half of it, rounded down.
DeltasOnlyDown ==
    [][UpdateStep =>
          /\ 0 <= stats'.deltas
          /\ stats'.deltas <= stats.deltas
          /\ RescaleReached => stats'.deltas >= stats.deltas \div 2]_vars

\* update rescaled an odd count at 30 whole days: 13 became 6
DeltasOnlyDownWitness ==
    /\ noiseEvent.op = "update"
    /\ increments = 2
    /\ noiseEvent.now = 30 * TicksPerDay + 1
    /\ stats.window_start = 15 * TicksPerDay
    /\ stats.deltas = 6

\* C6: past 30 days update advances window_start by 15 days, sets deltas to
\* deltas * (1 - 15 / days) cut to an integer, and sets window_last_checked.
WindowShuffleArithmetic ==
    [][(UpdateStep /\ AgeAtCall > 30 * TicksPerDay) =>
          /\ stats'.window_start = stats.window_start + 15 * TicksPerDay
          /\ stats'.deltas = (stats.deltas * (AgeDaysAtCall - 15)) \div AgeDaysAtCall
          /\ stats'.window_last_checked = noiseEvent'.now
          /\ stats'.domain = stats.domain]_vars

\* C7: up to and at 30 days update changes window_last_checked only.
WindowNoShuffle ==
    [][(UpdateStep /\ AgeAtCall <= 30 * TicksPerDay) =>
          stats' = [stats EXCEPT !.window_last_checked = noiseEvent'.now]]_vars

\* update was called at exactly 30 days with deltas counted
WindowNoShuffleWitness ==
    /\ noiseEvent.op = "update"
    /\ updates = 1
    /\ stats.window_start = 0
    /\ noiseEvent.now = 30 * TicksPerDay
    /\ stats.window_last_checked = 30 * TicksPerDay
    /\ stats.deltas = 100
    /\ stats.domain = NoiseDomain


\* the age of the window in the record, for the now of the last call
AgeNow == noiseEvent.now - stats.window_start

\* C18: one call of update moves window_start by one hop of 15 days at most,
\* so a call at an age above 45 days leaves an age above 30 days; with now
\* fixed, calling again and again leads to an age of 30 days or less, and
\* from then on window_start and deltas stay as they are.
SingleHopAndConvergence ==
    /\ [][UpdateStep =>
             /\ stats'.window_start - stats.window_start \in {0, 15 * TicksPerDay}
             /\ AgeAtCall > 45 * TicksPerDay =>
                    noiseEvent'.now - stats'.window_start > 30 * TicksPerDay
             /\ AgeAtCall <= 30 * TicksPerDay =>
                    /\ stats'.window_start = stats.window_start
                    /\ stats'.deltas = stats.deltas]_vars
    /\ (noiseEvent.op = "update") ~> [](AgeNow <= 30 * TicksPerDay)

\* update was called at day 61 and three times more: the window went to day
\* 15, 30 and 45, deltas from 100 to 75, 50 and 25, and the fourth call
\* changed neither
SingleHopAndConvergenceWitness ==
    /\ noiseEvent = [op |-> "update", now |-> 61 * TicksPerDay]
    /\ updates = 4
    /\ stats.window_start = 45 * TicksPerDay
    /\ stats.deltas = 25

====
